---- MODULE Spec2Model ----
(***************************************************************************)
(* hpp-corbaserver, Python client side.                                    *)
(*                                                                         *)
(*   src/src/hpp/corbaserver/__init__.py   the package body: it runs once, *)
(*       statement by statement, when the package is first imported.       *)
(*   src/tests/robot.py                    the client script: it imports   *)
(*       the package, builds a Client, issues five blocking remote calls   *)
(*       on cl.robot and builds a Robot.                                   *)
(*                                                                         *)
(* Both files are straight-line Python.  Each is modelled as the table of  *)
(* the interpreter steps it compiles to (an "import M" is one step, a      *)
(* "from M import a, b" is one IMPORT_NAME step followed by one            *)
(* IMPORT_FROM/STORE_NAME step per name), and a program counter walks the  *)
(* table.  Any step may raise; neither file contains a try statement, so   *)
(* a raised exception unwinds every frame and ends the run.                *)
(***************************************************************************)
EXTENDS Naturals, Sequences, FiniteSets, TLC

VARIABLES
    pc,        \* index of the next step of the script (robot.py)
    st,        \* what the script is doing: "run", "importing", "ctor", "wait", "done", "error"
    ipc,       \* index of the next step of the package body; 0 = body not entered
    ns,        \* namespace of the package hpp.corbaserver: name -> object
    sns,       \* namespace of the script: name -> object
    modules,   \* sys.modules: the names of the modules loaded so far
    updated,   \* the module names omniORB.updateModule has been called with
    inflight,  \* requests sent to the remote object and not yet taken up by it
    served,    \* the requests the remote object has carried out, in order
    replies,   \* answers of the remote object the script has not received yet
    trace,     \* what the script has done so far, in order
    err        \* the uncaught exception, NoErr while there is none

vars == <<pc, st, ipc, ns, sns, modules, updated, inflight, served, replies, trace, err>>

Package == "hpp.corbaserver"

\* Objects are named by where they are defined: attribute attr of module mod
\* (attr = "" is the module object itself); inst marks an instance of that class.
Obj(m, a) == [mod |-> m, attr |-> a, inst |-> FALSE]

Instance(cls) == [mod |-> cls.mod, attr |-> cls.attr, inst |-> TRUE]

NoErr == [file |-> "", line |-> 0, type |-> ""]

EmptyNs == [n \in {} |-> Obj("", "")]

Bind(space, name, obj) == (name :> obj) @@ space

(***************************************************************************)
(* The package body, src/src/hpp/corbaserver/__init__.py.                  *)
(*                                                                         *)
(*   op "import"       import M            load M, bind the name M         *)
(*   op "call"         M.name(attr)        omniORB.updateModule("...")     *)
(*   op "import_name"  from .x import ...  load the submodule mod and bind *)
(*                                         it as attribute name of the     *)
(*                                         package (IMPORT_NAME)           *)
(*   op "import_from"  ... import name     bind name to mod's attribute    *)
(*                                         (IMPORT_FROM, STORE_NAME)       *)
(*   op "assign"       name = M.attr       look the name M up, bind name   *)
(***************************************************************************)
I(l, o, m, n, a) == [line |-> l, op |-> o, mod |-> m, name |-> n, attr |-> a]

\* Mutant of InitBody: the imports are sorted to the top of the file, above
\* the call of omniORB.updateModule.
InitBodyImportsFirst ==
    << I(1,  "import",      "omniORB",                      "omniORB",         ""),
       I(2,  "import",      "robot_idl",                    "robot_idl",       ""),
       I(3,  "import",      "common_idl",                   "common_idl",      ""),
       I(4,  "import",      "obstacle_idl",                 "obstacle_idl",    ""),
       I(5,  "import",      "problem_idl",                  "problem_idl",     ""),
       I(6,  "import",      "server_idl_idl",               "server_idl_idl",  ""),
       I(8,  "call",        "omniORB",                      "updateModule",    "hpp.corbaserver"),
       I(10, "import_name", "hpp.corbaserver.client",       "client",          ""),
       I(10, "import_from", "hpp.corbaserver.client",       "Client",          "Client"),
       I(11, "import_name", "hpp.corbaserver.robot",        "robot",           ""),
       I(11, "import_from", "hpp.corbaserver.robot",        "Robot",           "Robot"),
       I(12, "assign",      "common_idl",                   "Transform",       "_0_hpp.Transform"),
       I(13, "import_name", "hpp.corbaserver.problem_solver", "problem_solver", ""),
       I(13, "import_from", "hpp.corbaserver.problem_solver", "ProblemSolver",  "ProblemSolver"),
       I(13, "import_from", "hpp.corbaserver.problem_solver", "newProblem",     "newProblem"),
       I(13, "import_from", "hpp.corbaserver.problem_solver", "loadServerPlugin", "loadServerPlugin"),
       I(14, "import_name", "hpp.corbaserver.benchmark",    "benchmark",       ""),
       I(14, "import_from", "hpp.corbaserver.benchmark",    "Benchmark",       "Benchmark") >>

InitBody ==
    << I(1,  "import",      "omniORB",                      "omniORB",         ""),
       I(2,  "call",        "omniORB",                      "updateModule",    "hpp.corbaserver"),
       I(4,  "import",      "robot_idl",                    "robot_idl",       ""),
       I(5,  "import",      "common_idl",                   "common_idl",      ""),
       I(6,  "import",      "obstacle_idl",                 "obstacle_idl",    ""),
       I(7,  "import",      "problem_idl",                  "problem_idl",     ""),
       I(8,  "import",      "server_idl_idl",               "server_idl_idl",  ""),
       I(10, "import_name", "hpp.corbaserver.client",       "client",          ""),
       I(10, "import_from", "hpp.corbaserver.client",       "Client",          "Client"),
       I(11, "import_name", "hpp.corbaserver.robot",        "robot",           ""),
       I(11, "import_from", "hpp.corbaserver.robot",        "Robot",           "Robot"),
       I(12, "assign",      "common_idl",                   "Transform",       "_0_hpp.Transform"),
       I(13, "import_name", "hpp.corbaserver.problem_solver", "problem_solver", ""),
       I(13, "import_from", "hpp.corbaserver.problem_solver", "ProblemSolver",  "ProblemSolver"),
       I(13, "import_from", "hpp.corbaserver.problem_solver", "newProblem",     "newProblem"),
       I(13, "import_from", "hpp.corbaserver.problem_solver", "loadServerPlugin", "loadServerPlugin"),
       I(14, "import_name", "hpp.corbaserver.benchmark",    "benchmark",       ""),
       I(14, "import_from", "hpp.corbaserver.benchmark",    "Benchmark",       "Benchmark") >>

InitEnd == Len(InitBody) + 1

\* The exceptions a step of the package body can raise.  An import fails with
\* ImportError (no such module, no such name) or with whatever the imported
\* module's own body raises; a call with whatever the callee raises; the
\* attribute chain of line 12 with AttributeError.
Raises(op) ==
    CASE op = "import"      -> {"ImportError", "Exception"}
      [] op = "import_name" -> {"ImportError", "Exception"}
      [] op = "import_from" -> {"ImportError"}
      [] op = "call"        -> {"Exception"}
      [] op = "assign"      -> {"AttributeError"}

\* Mutant of Eval: line 12 builds an object of its own from the stub's type.
EvalCopy(i) == Instance(Obj(ns[i.mod].mod, i.attr))

\* The value of the right-hand side of line 12: the name i.mod is looked up in
\* the package namespace and the attribute chain i.attr is read off that
\* module.  No call, no copy: the result is the stub's own object.
Eval(i) == Obj(ns[i.mod].mod, i.attr)

InPackage == st = "importing" /\ ipc \in 1..Len(InitBody)

Abort(file, line, type, what) ==
    /\ st' = "error"
    /\ err' = [file |-> file, line |-> line, type |-> type]
    /\ trace' = Append(trace, [ev |-> "raise", what |-> what])

\* import M  (lines 1, 4-8)
PkgImport ==
    /\ InPackage
    /\ InitBody[ipc].op = "import"
    /\ modules' = modules \cup {InitBody[ipc].mod}
    /\ ns' = Bind(ns, InitBody[ipc].name, Obj(InitBody[ipc].mod, ""))
    /\ ipc' = ipc + 1
    /\ UNCHANGED <<pc, st, sns, updated, inflight, served, replies, trace, err>>

\* omniORB.updateModule("hpp.corbaserver")  (line 2)
PkgUpdateModule ==
    /\ InPackage
    /\ InitBody[ipc].op = "call"
    /\ InitBody[ipc].mod \in DOMAIN ns
    /\ updated' = updated \cup {InitBody[ipc].attr}
    /\ ipc' = ipc + 1
    /\ UNCHANGED <<pc, st, ns, sns, modules, inflight, served, replies, trace, err>>

\* from .x import ...: the submodule is loaded and set as an attribute of the
\* package  (lines 10, 11, 13, 14, first half)
PkgImportName ==
    /\ InPackage
    /\ InitBody[ipc].op = "import_name"
    /\ modules' = modules \cup {InitBody[ipc].mod}
    /\ ns' = Bind(ns, InitBody[ipc].name, Obj(InitBody[ipc].mod, ""))
    /\ ipc' = ipc + 1
    /\ UNCHANGED <<pc, st, sns, updated, inflight, served, replies, trace, err>>

\* Mutant of PkgImportFrom: the attribute is read but never stored.
PkgImportFromNoStore ==
    /\ InPackage
    /\ InitBody[ipc].op = "import_from"
    /\ InitBody[ipc].mod \in modules
    /\ ipc' = ipc + 1
    /\ UNCHANGED <<pc, st, ns, sns, modules, updated, inflight, served, replies, trace, err>>

\* ... import name: one name of the submodule is bound in the package
\* (lines 10, 11, 13, 14, one step per imported name)
PkgImportFrom ==
    /\ InPackage
    /\ InitBody[ipc].op = "import_from"
    /\ InitBody[ipc].mod \in modules
    /\ ns' = Bind(ns, InitBody[ipc].name, Obj(InitBody[ipc].mod, InitBody[ipc].attr))
    /\ ipc' = ipc + 1
    /\ UNCHANGED <<pc, st, sns, modules, updated, inflight, served, replies, trace, err>>

\* Transform = common_idl._0_hpp.Transform  (line 12)
PkgAssign ==
    /\ InPackage
    /\ InitBody[ipc].op = "assign"
    /\ IF InitBody[ipc].mod \in DOMAIN ns
       THEN /\ ns' = Bind(ns, InitBody[ipc].name, Eval(InitBody[ipc]))
            /\ ipc' = ipc + 1
            /\ UNCHANGED <<st, modules, trace, err>>
       ELSE /\ Abort("__init__.py", InitBody[ipc].line, "NameError", InitBody[ipc].name)
            /\ modules' = modules \ {Package}
            /\ UNCHANGED <<ns, ipc>>
    /\ UNCHANGED <<pc, sns, updated, inflight, served, replies>>

\* Mutant of PkgRaise: the failing step is wrapped in try/except and skipped.
PkgRaiseSkip ==
    /\ InPackage
    /\ ipc' = ipc + 1
    /\ UNCHANGED <<pc, st, ns, sns, modules, updated, inflight, served, replies, trace, err>>

\* A step of the package body raises.  Nothing catches it: the body stops at
\* that step, what it has bound stays bound, the half-initialised package is
\* dropped from sys.modules (the modules it had loaded stay), and the exception
\* goes on to the importing script, which does not catch it either.
PkgRaise ==
    /\ InPackage
    /\ \E type \in Raises(InitBody[ipc].op) :
           Abort("__init__.py", InitBody[ipc].line, type, InitBody[ipc].name)
    /\ modules' = modules \ {Package}
    /\ UNCHANGED <<pc, ipc, ns, sns, updated, inflight, served, replies>>

\* The body ran to its end: the import statement of the script goes on.
PkgReturn ==
    /\ st = "importing"
    /\ ipc = InitEnd
    /\ st' = "run"
    /\ pc' = pc + 1
    /\ UNCHANGED <<ipc, ns, sns, modules, updated, inflight, served, replies, trace, err>>

(***************************************************************************)
(* The client script, src/tests/robot.py.                                  *)
(*                                                                         *)
(*   op "import_name"  from target import ...   load target (run its body  *)
(*                                              unless sys.modules has it) *)
(*   op "import_from"  ... import name          bind name in the script    *)
(*   op "construct"    name = target()          call the class target      *)
(*   op "invoke"       name.robot.target(args)  remote call on the robot   *)
(*                                              sub-handle of name         *)
(* Arguments are kept as written in the source, each as its text.          *)
(***************************************************************************)
S(l, o, t, n, a) == [line |-> l, op |-> o, target |-> t, name |-> n, args |-> a]

\* Mutant of Script: the sphere is attached to the joint before it is created
\* (lines 7 and 8 change places).
ScriptAttachFirst ==
    << S(1,  "import_name", "hpp.corbaserver",       "",       <<>>),
       S(1,  "import_from", "hpp.corbaserver",       "Client", <<>>),
       S(3,  "construct",   "Client",                "cl",     <<>>),
       S(5,  "invoke",      "createRobot",           "cl",     <<"test">>),
       S(6,  "invoke",      "appendJoint",           "cl",
             <<"test", "", "root_joint", "planar", "[0,0,0,0,0,0,1]">>),
       S(7,  "invoke",      "addObjectToJoint",      "cl",
             <<"test", "root_joint", "root_body", "[0,0,1,0,0,0,1]">>),
       S(8,  "invoke",      "createSphere",          "cl",     <<"root_body", "0.001">>),
       S(9,  "invoke",      "setRobot",              "cl",     <<"test">>),
       S(11, "import_name", "hpp.corbaserver.robot", "",       <<>>),
       S(11, "import_from", "hpp.corbaserver.robot", "Robot",  <<>>),
       S(12, "construct",   "Robot",                 "robot",  <<>>) >>

Script ==
    << S(1,  "import_name", "hpp.corbaserver",       "",       <<>>),
       S(1,  "import_from", "hpp.corbaserver",       "Client", <<>>),
       S(3,  "construct",   "Client",                "cl",     <<>>),
       S(5,  "invoke",      "createRobot",           "cl",     <<"test">>),
       S(6,  "invoke",      "appendJoint",           "cl",
             <<"test", "", "root_joint", "planar", "[0,0,0,0,0,0,1]">>),
       S(7,  "invoke",      "createSphere",          "cl",     <<"root_body", "0.001">>),
       S(8,  "invoke",      "addObjectToJoint",      "cl",
             <<"test", "root_joint", "root_body", "[0,0,1,0,0,0,1]">>),
       S(9,  "invoke",      "setRobot",              "cl",     <<"test">>),
       S(11, "import_name", "hpp.corbaserver.robot", "",       <<>>),
       S(11, "import_from", "hpp.corbaserver.robot", "Robot",  <<>>),
       S(12, "construct",   "Robot",                 "robot",  <<>>) >>

ScriptEnd == Len(Script) + 1

AtStep(op) == st = "run" /\ pc \in 1..Len(Script) /\ Script[pc].op = op

Request(i) == [op |-> i.target, args |-> i.args]

Event(e, w) == [ev |-> e, what |-> w]

\* from M import ..., first half.  A module sys.modules already holds is not
\* run again; the package, when it is not loaded yet, is entered in sys.modules
\* (after its parent hpp) and its body starts.
ScriptImportName ==
    /\ AtStep("import_name")
    /\ IF Script[pc].target \in modules
       THEN /\ pc' = pc + 1
            /\ UNCHANGED <<st, ipc, modules>>
       ELSE /\ Script[pc].target = Package
            /\ modules' = modules \cup {"hpp", Package}
            /\ ipc' = 1
            /\ st' = "importing"
            /\ UNCHANGED pc
    /\ UNCHANGED <<ns, sns, updated, inflight, served, replies, trace, err>>

\* The module cannot be found at all: ImportError before any of it has run.
ScriptImportMissing ==
    /\ AtStep("import_name")
    /\ Script[pc].target \notin modules
    /\ Abort("robot.py", Script[pc].line, "ImportError", Script[pc].target)
    /\ UNCHANGED <<pc, ipc, ns, sns, modules, updated, inflight, served, replies>>

\* The attribute name of module m, as IMPORT_FROM reads it: the package's
\* attributes are its namespace, a submodule's are its own definitions.
HasAttr(m, name) == IF m = Package THEN name \in DOMAIN ns ELSE m \in modules

GetAttr(m, name) == IF m = Package THEN ns[name] ELSE Obj(m, name)

\* from M import name, second half.
ScriptImportFrom ==
    /\ AtStep("import_from")
    /\ IF HasAttr(Script[pc].target, Script[pc].name)
       THEN /\ sns' = Bind(sns, Script[pc].name, GetAttr(Script[pc].target, Script[pc].name))
            /\ pc' = pc + 1
            /\ UNCHANGED <<st, trace, err>>
       ELSE /\ Abort("robot.py", Script[pc].line, "ImportError", Script[pc].name)
            /\ UNCHANGED <<pc, sns>>
    /\ UNCHANGED <<ipc, ns, modules, updated, inflight, served, replies>>

\* name = target(): the constructor is entered ...
Construct ==
    /\ AtStep("construct")
    /\ Script[pc].target \in DOMAIN sns
    /\ st' = "ctor"
    /\ trace' = Append(trace, Event("new", Script[pc].target))
    /\ UNCHANGED <<pc, ipc, ns, sns, modules, updated, inflight, served, replies, err>>

\* ... and returns the new object, which is bound to name,
ConstructReturn ==
    /\ st = "ctor"
    /\ sns' = Bind(sns, Script[pc].name, Instance(sns[Script[pc].target]))
    /\ trace' = Append(trace, Event("built", Script[pc].target))
    /\ st' = "run"
    /\ pc' = pc + 1
    /\ UNCHANGED <<ipc, ns, modules, updated, inflight, served, replies, err>>

\* ... or raises (the constructors reach for the ORB and the name service).
ConstructRaise ==
    /\ st = "ctor"
    /\ \E type \in {"CORBA.SystemException", "Exception"} :
           Abort("robot.py", Script[pc].line, type, Script[pc].target)
    /\ UNCHANGED <<pc, ipc, ns, sns, modules, updated, inflight, served, replies>>

\* Mutant of Invoke: the operation is invoked oneway; the script hands the
\* request to the ORB and goes on without waiting for the answer.
InvokeOneway ==
    /\ st = "run" /\ pc \in 1..Len(Script) /\ Script[pc].op = "invoke"
    /\ Script[pc].name \in DOMAIN sns
    /\ inflight' = Append(inflight, [op |-> Script[pc].target, args |-> Script[pc].args])
    /\ trace' = Append(trace, [ev |-> "call", what |-> Script[pc].target])
    /\ pc' = pc + 1
    /\ UNCHANGED <<st, ipc, ns, sns, modules, updated, served, replies, err>>

\* name.robot.target(args): a two-way invocation.  The request is handed to
\* the ORB and the script blocks in the call until the answer is in.
Invoke ==
    /\ AtStep("invoke")
    /\ Script[pc].name \in DOMAIN sns
    /\ inflight' = Append(inflight, Request(Script[pc]))
    /\ trace' = Append(trace, Event("call", Script[pc].target))
    /\ st' = "wait"
    /\ UNCHANGED <<pc, ipc, ns, sns, modules, updated, served, replies, err>>

\* Mutant of InvokeBadParam: the call is wrapped in try/except; the failure
\* is swallowed and the script goes on with the next line.
InvokeBadParamSwallowed ==
    /\ st = "run" /\ pc \in 1..Len(Script) /\ Script[pc].op = "invoke"
    /\ Script[pc].name \in DOMAIN sns
    /\ trace' = Append(trace, [ev |-> "raise", what |-> Script[pc].target])
    /\ pc' = pc + 1
    /\ UNCHANGED <<st, ipc, ns, sns, modules, updated, inflight, served, replies, err>>

\* The arguments cannot be marshalled: the stub raises before anything is sent.
InvokeBadParam ==
    /\ AtStep("invoke")
    /\ Script[pc].name \in DOMAIN sns
    /\ Abort("robot.py", Script[pc].line, "CORBA.BAD_PARAM", Script[pc].target)
    /\ UNCHANGED <<pc, ipc, ns, sns, modules, updated, inflight, served, replies>>

\* The remote object takes the oldest outstanding request, carries it out and
\* answers: with the result, or with the exception hpp.Error.
Serve ==
    /\ inflight # <<>>
    /\ \E outcome \in {"ok", "hpp.Error"} :
           /\ served' = Append(served, [req |-> Head(inflight), outcome |-> outcome])
           /\ replies' = Append(replies, [op |-> Head(inflight).op, outcome |-> outcome])
    /\ inflight' = Tail(inflight)
    /\ UNCHANGED <<pc, st, ipc, ns, sns, modules, updated, trace, err>>

\* The answer is in: the call the script is blocked in returns and the script
\* goes on with the next line.
Return ==
    /\ replies # <<>>
    /\ Head(replies).outcome = "ok"
    /\ replies' = Tail(replies)
    /\ trace' = Append(trace, Event("ret", Head(replies).op))
    /\ IF st = "wait"
       THEN st' = "run" /\ pc' = pc + 1
       ELSE UNCHANGED <<st, pc>>
    /\ UNCHANGED <<ipc, ns, sns, modules, updated, inflight, served, err>>

\* Mutant of ReturnRaise: the remote exception is swallowed and the script
\* goes on with the next line.
ReturnRaiseSwallowed ==
    /\ st = "wait"
    /\ replies # <<>>
    /\ Head(replies).outcome # "ok"
    /\ replies' = Tail(replies)
    /\ st' = "run"
    /\ pc' = pc + 1
    /\ UNCHANGED <<ipc, ns, sns, modules, updated, inflight, served, trace, err>>

\* The answer is an exception: the call raises it in the script.
ReturnRaise ==
    /\ st = "wait"
    /\ replies # <<>>
    /\ Head(replies).outcome # "ok"
    /\ replies' = Tail(replies)
    /\ Abort("robot.py", Script[pc].line, Head(replies).outcome, Head(replies).op)
    /\ UNCHANGED <<pc, ipc, ns, sns, modules, updated, inflight, served>>

\* The connection fails while the script is blocked in a call, before or after
\* the remote object has carried the request out: the ORB gives up on what is
\* outstanding and the call raises a CORBA system exception.
CommFailure ==
    /\ st = "wait"
    /\ inflight' = <<>>
    /\ replies' = <<>>
    /\ \E type \in {"CORBA.COMM_FAILURE", "CORBA.TRANSIENT"} :
           Abort("robot.py", Script[pc].line, type, Script[pc].target)
    /\ UNCHANGED <<pc, ipc, ns, sns, modules, updated, served>>

\* The last line has run: the script ends normally.
Finish ==
    /\ st = "run"
    /\ pc = ScriptEnd
    /\ st' = "done"
    /\ UNCHANGED <<pc, ipc, ns, sns, modules, updated, inflight, served, replies, trace, err>>

Init ==
    /\ pc = 1
    /\ st = "run"
    /\ ipc = 0
    /\ ns = EmptyNs
    /\ sns = EmptyNs
    /\ modules = {}
    /\ updated = {}
    /\ inflight = <<>>
    /\ served = <<>>
    /\ replies = <<>>
    /\ trace = <<>>
    /\ err = NoErr

Next ==
    \/ ScriptImportName
    \/ ScriptImportMissing
    \/ PkgImport
    \/ PkgUpdateModule
    \/ PkgImportName
    \/ PkgImportFrom
    \/ PkgAssign
    \/ PkgRaise
    \/ PkgReturn
    \/ ScriptImportFrom
    \/ Construct
    \/ ConstructReturn
    \/ ConstructRaise
    \/ Invoke
    \/ InvokeBadParam
    \/ Serve
    \/ Return
    \/ ReturnRaise
    \/ CommFailure
    \/ Finish

Spec == Init /\ [][Next]_vars

\* The interpreter always runs the next step and the ORB always delivers an
\* answer or a failure: the run goes on for as long as a step is enabled.
FairSpec == Spec /\ WF_vars(Next)

(***************************************************************************)
(* Properties of the package import.                                       *)
(***************************************************************************)
Stubs == {"robot_idl", "common_idl", "obstacle_idl", "problem_idl", "server_idl_idl"}

Submodules == {"hpp.corbaserver.client", "hpp.corbaserver.robot",
               "hpp.corbaserver.problem_solver", "hpp.corbaserver.benchmark"}

Facade == {"Client", "Robot", "ProblemSolver", "Benchmark", "Transform"}

ExportOrder == <<"Client", "Robot", "Transform", "ProblemSolver", "newProblem",
                 "loadServerPlugin", "Benchmark">>

ExportGroups == << {"Client"}, {"Robot"}, {"Transform"},
                   {"ProblemSolver", "newProblem", "loadServerPlugin"}, {"Benchmark"} >>

Exports == {ExportOrder[k] : k \in DOMAIN ExportOrder}

BoundExports == DOMAIN ns \cap Exports

PackageImported == ipc = InitEnd

\* C1: once the package body has run to its end, Client, Robot, ProblemSolver,
\* Benchmark and Transform are all bound in the package namespace.
C1_FacadeBound == PackageImported => Facade \subseteq DOMAIN ns

C1_Witness == PackageImported /\ st = "run" /\ Facade \subseteq DOMAIN ns

\* C5: no stub module is loaded before omniORB.updateModule("hpp.corbaserver")
\* has run, and no submodule (client, robot, problem_solver, benchmark) is
\* loaded before all five stub modules are.
C5_ImportOrder ==
    /\ modules \cap Stubs # {} => Package \in updated
    /\ modules \cap Submodules # {} => Stubs \subseteq modules

C5_Witness ==
    /\ "hpp.corbaserver.client" \in modules
    /\ "hpp.corbaserver.benchmark" \notin modules
    /\ Stubs \subseteq modules
    /\ Package \in updated

\* C6: whenever the package name Transform is bound, common_idl is loaded and
\* Transform is the very object common_idl._0_hpp.Transform (an alias, not a
\* copy and not an instance).
C6_TransformAlias ==
    "Transform" \in DOMAIN ns =>
        /\ "common_idl" \in modules
        /\ ns["Transform"] = [mod |-> "common_idl", attr |-> "_0_hpp.Transform", inst |-> FALSE]

C6_Witness == "Transform" \in DOMAIN ns /\ "common_idl" \in modules

\* The package body is between two statements, or has been aborted.
BetweenStatements ==
    \/ st = "error"
    \/ ipc \in {0, 1, InitEnd}
    \/ ipc \in 2..Len(InitBody) /\ InitBody[ipc].line # InitBody[ipc - 1].line

\* C7 as stated: the exported names bound are a prefix of Client, Robot,
\* Transform, {ProblemSolver, newProblem, loadServerPlugin}, Benchmark, the
\* three names of line 13 counting as one element.  It is stated here for the
\* states in which the body is between two statements or has been aborted
\* only, which leaves out the states in the middle of a successful line 13.
C7_GroupPrefix ==
    BetweenStatements =>
        \E k \in 0..Len(ExportGroups) :
            BoundExports = UNION {ExportGroups[j] : j \in 1..k}

\* C7 as amended: the exported names bound are a prefix of Client, Robot,
\* Transform, ProblemSolver, newProblem, loadServerPlugin, Benchmark (line 13
\* binds its three names one at a time, in that order); in particular
\* Benchmark is bound only if Client, Robot, Transform and ProblemSolver are.
C7_NamePrefix ==
    /\ \E k \in 0..Len(ExportOrder) : BoundExports = {ExportOrder[j] : j \in 1..k}
    /\ "Benchmark" \in DOMAIN ns =>
           {"Client", "Robot", "Transform", "ProblemSolver"} \subseteq DOMAIN ns

\* The import was aborted by line 13 after it had bound ProblemSolver.
C7_Witness ==
    /\ st = "error"
    /\ err.file = "__init__.py"
    /\ err.line = 13
    /\ BoundExports = {"Client", "Robot", "Transform", "ProblemSolver"}

(***************************************************************************)
(* Properties of the client script.                                        *)
(***************************************************************************)
RemoteOps == <<"createRobot", "appendJoint", "createSphere", "addObjectToJoint", "setRobot">>

IsCall(e) == e.ev = "call"

Calls == SelectSeq(trace, IsCall)

Count(e) == Cardinality({i \in DOMAIN trace : trace[i].ev = e})

CountOf(e, w) == Cardinality({i \in DOMAIN trace : trace[i] = Event(e, w)})

\* Event (e, w) stands in the trace before position i.
Before(i, e, w) == \E j \in 1..(i - 1) : trace[j] = Event(e, w)

Outstanding == Len(inflight) + Len(replies)

\* The arguments the script passes to the remote operation op.
ArgsOf(op) ==
    LET k == CHOOSE n \in DOMAIN Script : Script[n].op = "invoke" /\ Script[n].target = op
    IN  Script[k].args

\* C2: the remote operations are issued in the order createRobot, appendJoint,
\* createSphere, addObjectToJoint, setRobot, each at most once, none before
\* the Client has been constructed, and the construction of the Robot starts
\* only after setRobot has returned.
C2_CallOrder ==
    /\ Len(Calls) <= Len(RemoteOps)
    /\ \A k \in DOMAIN Calls : Calls[k].what = RemoteOps[k]
    /\ \A i \in DOMAIN trace :
           /\ trace[i].ev = "call" => Before(i, "built", "Client")
           /\ trace[i] = Event("new", "Robot") => Before(i, "ret", "setRobot")

C2_Witness == st = "done" /\ Len(Calls) = Len(RemoteOps) /\ CountOf("new", "Robot") = 1

\* C3: at most one remote call is outstanding, the script is blocked while it
\* is, and every remote call is issued with all earlier ones answered.
C3_Synchronous ==
    /\ Outstanding <= 1
    /\ Outstanding = 1 => st = "wait"
    /\ \A i \in DOMAIN trace :
           trace[i].ev = "call" =>
               Cardinality({j \in 1..(i - 1) : trace[j].ev = "call"})
                   = Cardinality({j \in 1..(i - 1) : trace[j].ev = "ret"})

\* The second call is outstanding: the first has been answered.
C3_Witness == Outstanding = 1 /\ Count("call") = 2 /\ Count("ret") = 1

\* The step of the script that raised is a constructor or a remote call.
CallFailed ==
    /\ st = "error"
    /\ err.file = "robot.py"
    /\ Script[pc].op \in {"construct", "invoke"}

\* C4: a failure is not caught.  Once something has raised, the script is in
\* the error state with the exception recorded at the line that raised, the
\* raise is the last thing it has done (no later call, no later construction)
\* and nothing further can happen; a failed remote call carries the exception
\* the RPC runtime gave it.
C4_FailureStops ==
    /\ \A i \in DOMAIN trace : trace[i].ev = "raise" => i = Len(trace) /\ st = "error"
    /\ st = "error" =>
           /\ err # NoErr
           /\ trace # <<>> /\ trace[Len(trace)].ev = "raise"
           /\ ~ENABLED Next
    /\ CallFailed =>
           /\ err.line = Script[pc].line
           /\ Script[pc].op = "invoke" =>
                  err.type \in {"CORBA.BAD_PARAM", "CORBA.COMM_FAILURE", "CORBA.TRANSIENT", "hpp.Error"}

\* createSphere failed remotely: the script stopped at line 7 with two calls
\* answered and no call to addObjectToJoint or setRobot.
C4_Witness ==
    /\ CallFailed
    /\ err.line = 7
    /\ err.type = "hpp.Error"
    /\ Count("ret") = 2
    /\ Count("call") = 3

\* C8: appendJoint and setRobot, which name the robot "test", are issued only
\* after createRobot("test") has returned; addObjectToJoint("test",
\* "root_joint", "root_body", ...) only after createRobot("test"), the
\* appendJoint that creates "root_joint" and the createSphere that creates
\* "root_body" have all returned.
C8_CreatedBeforeUse ==
    /\ ArgsOf("createRobot")[1] = "test"
    /\ ArgsOf("appendJoint")[1] = "test" /\ ArgsOf("appendJoint")[3] = "root_joint"
    /\ ArgsOf("createSphere")[1] = "root_body"
    /\ SubSeq(ArgsOf("addObjectToJoint"), 1, 3) = <<"test", "root_joint", "root_body">>
    /\ ArgsOf("setRobot")[1] = "test"
    /\ \A i \in DOMAIN trace :
           /\ trace[i] \in {Event("call", "appendJoint"), Event("call", "setRobot")}
                  => Before(i, "ret", "createRobot")
           /\ trace[i] = Event("call", "addObjectToJoint")
                  => /\ Before(i, "ret", "createRobot")
                     /\ Before(i, "ret", "appendJoint")
                     /\ Before(i, "ret", "createSphere")

C8_Witness ==
    /\ CountOf("call", "addObjectToJoint") = 1
    /\ CountOf("call", "setRobot") = 1
    /\ Len(served) = 5

\* The script has ended normally with exactly five remote calls issued, one
\* of each operation, each answered, one Client and one Robot constructed.
Completed ==
    /\ st = "done"
    /\ Count("call") = 5
    /\ \A k \in DOMAIN RemoteOps :
           CountOf("call", RemoteOps[k]) = 1 /\ CountOf("ret", RemoteOps[k]) = 1
    /\ Count("new") = 2
    /\ CountOf("built", "Client") = 1
    /\ CountOf("built", "Robot") = 1

====
